---- MODULE Spec2Model ----
(***************************************************************************)
(* Model of download_00981a.py: the holdings extraction and differencing   *)
(* pipeline (find_header_row, pick_column, to_int_safe,                    *)
(* parse_holdings_from_xlsx, compute_diff, main).                          *)
(*                                                                         *)
(* Text is modelled as a sequence of one-character strings, so that the    *)
(* substring tests, strip, zfill and the regular expressions of the source *)
(* are computed and not assumed.  A CJK character is written as an ASCII   *)
(* token: dai hao = U+4EE3 U+865F, gu shu = U+80A1 U+6578, and so on.      *)
(* A cell of a DataFrame is modelled by its str() form; an empty           *)
(* spreadsheet cell is NaN, whose str() form is "nan".                     *)
(***************************************************************************)
EXTENDS Integers, Sequences, FiniteSets, TLC

VARIABLES
    pc,          \* position of the modelled call: "call" before, "ret" after
    df_raw,      \* find_header_row: the table read with header=None
    header_row,  \* find_header_row: the returned row index (NoneRow for None)
    columns,     \* column resolution: df.columns before normalisation
    colmap,      \* column resolution: [err, code_col, name_col, shares_col]
    rows,        \* record normalisation: the (code, name, shares) cells below the header
    holdings,    \* record normalisation: [err, df] returned by the cleaning pipeline
    prev_df,     \* compute_diff: previous snapshot
    curr_df,     \* compute_diff: current snapshot
    diff_df,     \* compute_diff: [err, df]
    files,       \* main: the data/out directory, file name -> content
    run          \* main: what the last run of main did

vars == <<pc, df_raw, header_row, columns, colmap, rows, holdings,
          prev_df, curr_df, diff_df, files, run>>

-----------------------------------------------------------------------------
(* Text *)

Digits == {"0", "1", "2", "3", "4", "5", "6", "7", "8", "9"}
Letters == {"A", "B", "a", "b", "f", "i", "m", "n", "o", "x"}
Whitespace == {" "}

\* str.lower on one character of the alphabet
Lower(c) == IF c = "A" THEN "a" ELSE IF c = "B" THEN "b" ELSE c

LowerText(s) == [i \in 1..Len(s) |-> Lower(s[i])]

\* `k in s` for strings
Contains(s, k) ==
    \E i \in 0..(Len(s) - Len(k)) : \A j \in 1..Len(k) : s[i + j] = k[j]

\* str.strip()
Strip(s) ==
    LET keep == {i \in 1..Len(s) : s[i] \notin Whitespace}
    IN  IF keep = {} THEN <<>>
        ELSE LET lo == CHOOSE i \in keep : \A j \in keep : i <= j
                 hi == CHOOSE i \in keep : \A j \in keep : j <= i
             IN  SubSeq(s, lo, hi)

\* s.replace(c, "") for a one-character c
RECURSIVE RemoveChar(_, _)
RemoveChar(s, c) ==
    IF s = <<>> THEN <<>>
    ELSE IF Head(s) = c THEN RemoveChar(Tail(s), c)
    ELSE <<Head(s)>> \o RemoveChar(Tail(s), c)

\* " ".join(parts)
RECURSIVE JoinSpace(_)
JoinSpace(parts) ==
    IF parts = <<>> THEN <<>>
    ELSE IF Len(parts) = 1 THEN parts[1]
    ELSE parts[1] \o <<" ">> \o JoinSpace(Tail(parts))

\* [f(x) for x in xs if keep(x)] with keep given as a set of kept values
RECURSIVE FilterSeq(_, _)
FilterSeq(xs, drop) ==
    IF xs = <<>> THEN <<>>
    ELSE IF Head(xs) \in drop THEN FilterSeq(Tail(xs), drop)
    ELSE <<Head(xs)>> \o FilterSeq(Tail(xs), drop)

NaNText == <<"n", "a", "n">>

\* ord(c) for the ASCII characters of the alphabet
CodePoint(c) ==
    CASE c = " " -> 32 [] c = "*" -> 42 [] c = "," -> 44 [] c = "-" -> 45 [] c = "." -> 46
      [] c \in Digits -> 48 + (CHOOSE d \in 0..9 : ToString(d) = c)
      [] c = "A" -> 65 [] c = "B" -> 66 [] c = "a" -> 97 [] c = "b" -> 98
      [] c = "f" -> 102 [] c = "i" -> 105 [] c = "m" -> 109 [] c = "n" -> 110
      [] c = "o" -> 111 [] c = "x" -> 120

\* a < b for strings
TextLess(a, b) ==
    \E k \in 1..(Len(b)) :
        /\ k <= Len(a) + 1
        /\ \A i \in 1..(k - 1) : a[i] = b[i]
        /\ (k = Len(a) + 1 \/ CodePoint(a[k]) < CodePoint(b[k]))

-----------------------------------------------------------------------------
(* find_header_row *)

must_have_any == { <<"dai", "hao">>, <<"gu", "piao", "dai", "hao">>,
                   <<"biao", "de", "dai", "hao">>, <<"zheng", "quan", "dai", "hao">> }
should_have_any == { <<"ming", "cheng">>, <<"biao", "de", "ming", "cheng">>,
                     <<"gu", "piao", "ming", "cheng">>, <<"gu", "ming">> }
shares_any == { <<"gu", "shu">>, <<"chi", "gu", "gu", "shu">>,
                <<"shu", "liang">>, <<"chi", "you", "gu", "shu">> }

max_scan_limit == 40
NoneRow == -1

Min(a, b) == IF a < b THEN a ELSE b

\* " ".join([x.strip() for x in row if x and x != "nan"]).strip()
RowJoin(row) ==
    LET kept == FilterSeq(row, {<<>>, NaNText})
    IN  Strip(JoinSpace([i \in 1..Len(kept) |-> Strip(kept[i])]))

RowQualifies(row) ==
    LET row_join == RowJoin(row)
        has_code == \E k \in must_have_any : Contains(row_join, k)
        has_shares == \E k \in shares_any : Contains(row_join, k)
        has_name == \E k \in should_have_any : Contains(row_join, k)
    IN  /\ ~(row_join = <<>> \/ LowerText(row_join) = NaNText)
        /\ \/ (has_code /\ has_shares)
           \/ (has_code /\ has_name /\ has_shares)

\* find_header_row scanning every row of the table, not the first 40 only
find_header_row_unbounded(df) ==
    LET hits == {i \in 0..(Len(df) - 1) : RowQualifies(df[i + 1])}
    IN  IF hits = {} THEN NoneRow
        ELSE CHOOSE i \in hits : \A j \in hits : i <= j

\* the row indices are 0-based as in the source; df[i + 1] is df_raw.iloc[i]
find_header_row(df) ==
    LET max_scan == Min(max_scan_limit, Len(df))
        hits == {i \in 0..(max_scan - 1) : RowQualifies(df[i + 1])}
    IN  IF hits = {} THEN NoneRow
        ELSE CHOOSE i \in hits : \A j \in hits : i <= j

-----------------------------------------------------------------------------
(* normalize_colname, pick_column and the column mapping of                *)
(* parse_holdings_from_xlsx                                                *)

\* re.sub(r"\s+", "", str(s)).strip()
normalize_colname(s) == Strip(RemoveChar(s, " "))

\* the candidate lists are ordered: pick_column tries them in this order
code_candidates == << <<"dai", "hao">>, <<"gu", "piao", "dai", "hao">>,
                      <<"biao", "de", "dai", "hao">>, <<"zheng", "quan", "dai", "hao">> >>
name_candidates == << <<"ming", "cheng">>, <<"biao", "de", "ming", "cheng">>,
                      <<"gu", "piao", "ming", "cheng">>, <<"gu", "ming">> >>
shares_candidates == << <<"gu", "shu">>, <<"chi", "gu", "gu", "shu">>,
                        <<"shu", "liang">>, <<"chi", "you", "gu", "shu">> >>

\* pick_column's None
NoCol == <<"<None>">>

\* for cand in candidates: for col in cols: if cand in normalize_colname(col): return col
pick_column(cols, candidates) ==
    LET matches(c) == {i \in 1..Len(cols) : Contains(normalize_colname(cols[i]), candidates[c])}
        cands == {c \in 1..Len(candidates) : matches(c) # {}}
    IN  IF cands = {} THEN NoCol
        ELSE LET c == CHOOSE x \in cands : \A y \in cands : x <= y
                 i == CHOOSE x \in matches(c) : \A y \in matches(c) : x <= y
             IN  cols[i]

\* lines 216-227: the column names are normalised, the three fields are picked,
\* and a missing code or shares column raises RuntimeError
resolve_columns(cols) ==
    LET ncols == [i \in 1..Len(cols) |-> normalize_colname(cols[i])]
        code_col == pick_column(ncols, code_candidates)
        name_col == pick_column(ncols, name_candidates)
        shares_col == pick_column(ncols, shares_candidates)
    IN  [err |-> IF code_col = NoCol \/ shares_col = NoCol THEN "RuntimeError" ELSE "",
         ncols |-> ncols,
         code_col |-> code_col, name_col |-> name_col, shares_col |-> shares_col]

-----------------------------------------------------------------------------
(* to_int_safe *)

DigitVal(c) == CHOOSE d \in 0..9 : ToString(d) = c

IsDigits(s) == \A i \in 1..Len(s) : s[i] \in Digits

RECURSIVE DigitsVal(_)
DigitsVal(s) == IF s = <<>> THEN 0 ELSE 10 * DigitsVal(SubSeq(s, 1, Len(s) - 1)) + DigitVal(s[Len(s)])

\* float(s) followed by int(): [kind, val], kind "ValueError" when float(s) or
\* int(nan) raises ValueError, "OverflowError" when int(inf) raises it, "int"
\* with the value truncated towards zero otherwise.  The accepted literals are
\* the ones that can be written in the alphabet of the model: an optional "-",
\* digits with an optional "." (one side of it may be empty), inf and nan in
\* any case.  Exponents, "+", "_" and "infinity" need characters the model's
\* cells never hold.
int_float(s) ==
    LET neg == s # <<>> /\ Head(s) = "-"
        body == IF neg THEN Tail(s) ELSE s
        dots == {i \in 1..Len(body) : body[i] = "."}
        dot == IF dots = {} THEN Len(body) + 1 ELSE CHOOSE i \in dots : TRUE
        ip == SubSeq(body, 1, dot - 1)
        fp == SubSeq(body, dot + 1, Len(body))
    IN  IF LowerText(body) = <<"i", "n", "f">> THEN [kind |-> "OverflowError", val |-> 0]
        ELSE IF LowerText(body) = NaNText THEN [kind |-> "ValueError", val |-> 0]
        ELSE IF /\ Cardinality(dots) <= 1
                /\ IsDigits(ip) /\ IsDigits(fp)
                /\ Len(ip) + Len(fp) > 0
             THEN [kind |-> "int", val |-> IF neg THEN 0 - DigitsVal(ip) ELSE DigitsVal(ip)]
        ELSE [kind |-> "ValueError", val |-> 0]

\* [raised, val]: raised is "" or the exception that escapes to_int_safe.
\* The cell is given by its str() form; None, which pandas does not put in a
\* column read from a sheet, is not drawn.
to_int_safe(x) ==
    LET s0 == Strip(x)
        s == RemoveChar(RemoveChar(s0, ","), " ")
        r == int_float(s)
    IN  IF s0 = <<>> \/ LowerText(s0) = NaNText THEN [raised |-> "", val |-> 0]
        ELSE IF r.kind = "int" THEN [raised |-> "", val |-> r.val]
        ELSE IF r.kind = "ValueError" THEN [raised |-> "", val |-> 0]
        ELSE [raised |-> r.kind, val |-> 0]

-----------------------------------------------------------------------------
(* parse_holdings_from_xlsx: cleaning, filtering, aggregation and sorting  *)

\* .astype(str).str.strip().str.replace(r"\.0$", "", regex=True), then
\* x.zfill(4) if x.isdigit() else x
clean_code(c) ==
    LET s1 == Strip(c)
        n == Len(s1)
        s2 == IF n >= 2 /\ s1[n - 1] = "." /\ s1[n] = "0" THEN SubSeq(s1, 1, n - 2) ELSE s1
    IN  IF s2 # <<>> /\ IsDigits(s2) /\ Len(s2) < 4
        THEN [i \in 1..(4 - Len(s2)) |-> "0"] \o s2
        ELSE s2

total_markers == { <<"he", "ji">>, <<"zong", "ji">>, <<"xiao", "ji">> }

\* the three filters of lines 261-267 on a cleaned code
keep_code(code) ==
    /\ Len(code) > 0
    /\ ~ \E m \in total_markers : Contains(code, m)
    /\ \A i \in 1..Len(code) : code[i] \in Digits \cup Letters \cup {".", "-"}

\* lines 248-258 on one row of (code, name, shares) cells
clean_row(r) ==
    [code |-> clean_code(r.code), name |-> Strip(r.name), shares |-> to_int_safe(r.shares)]

RECURSIVE SumShares(_, _, _)
SumShares(rs, code, name) ==
    IF rs = <<>> THEN 0
    ELSE (IF Head(rs).code = code /\ Head(rs).name = name THEN Head(rs).shares ELSE 0)
         + SumShares(Tail(rs), code, name)

\* df.groupby(["code", "name"], as_index=False)["shares"].sum(): one row for
\* each (code, name) pair.  The key order groupby gives them is not kept here,
\* sort_values reorders the rows next.
group_rows(rs) ==
    { [code |-> rs[i].code, name |-> rs[i].name,
       shares |-> SumShares(rs, rs[i].code, rs[i].name)] : i \in 1..Len(rs) }

\* df.sort_values("shares", ascending=False): the default kind is quicksort,
\* which is not stable, so rows of equal shares come out in any order.  The
\* result is every arrangement of the rows S with the shares not increasing.
RECURSIVE sort_by_shares(_)
sort_by_shares(S) ==
    IF S = {} THEN { <<>> }
    ELSE LET firsts == {x \in S : \A y \in S : x.shares >= y.shares}
         IN  UNION { { <<x>> \o rest : rest \in sort_by_shares(S \ {x}) } : x \in firsts }

\* lines 246-274 on the projected rows: the set of results the call can give,
\* each [err, df]; an exception escaping to_int_safe aborts the call
normalize_rows(rs) ==
    LET cleaned == [i \in 1..Len(rs) |-> clean_row(rs[i])]
        raised == {cleaned[i].shares.raised : i \in 1..Len(rs)} \ {""}
        valued == [i \in 1..Len(rs) |->
                     [code |-> cleaned[i].code, name |-> cleaned[i].name,
                      shares |-> cleaned[i].shares.val]]
        dropped == {valued[i] : i \in {j \in 1..Len(rs) : ~keep_code(valued[j].code)}}
        kept == FilterSeq(valued, dropped)
    IN  IF raised # {} THEN { [err |-> CHOOSE e \in raised : TRUE, df |-> <<>>] }
        ELSE { [err |-> "", df |-> d] : d \in sort_by_shares(group_rows(kept)) }

\* position of the column named c (the first one of that name)
column_index(ncols, c) == CHOOSE i \in 1..Len(ncols) : ncols[i] = c /\ \A j \in 1..(i - 1) : ncols[j] # c

\* lines 229-244: df[keep], the rename and the default name column.  When two
\* fields were bound to the same column the rename dictionary has one key
\* twice and the later name wins: without a "code" column df["code"] raises
\* KeyError, and with two "shares" columns the assignment to df["shares"]
\* raises ValueError.
project_rows(data, m) ==
    IF m.code_col = m.name_col \/ m.code_col = m.shares_col THEN [err |-> "KeyError", rows |-> <<>>]
    ELSE IF m.name_col = m.shares_col THEN [err |-> "ValueError", rows |-> <<>>]
    ELSE [err |-> "",
          rows |-> [r \in 1..Len(data) |->
                     [code |-> data[r][column_index(m.ncols, m.code_col)],
                      name |-> IF m.name_col = NoCol THEN <<>>
                               ELSE data[r][column_index(m.ncols, m.name_col)],
                      shares |-> data[r][column_index(m.ncols, m.shares_col)]]]]

\* parse_holdings_from_xlsx without the data date: the set of results, each [err, df]
parse_holdings_from_xlsx(df0) ==
    LET h == find_header_row(df0)
        m == resolve_columns(df0[h + 1])
        p == project_rows(SubSeq(df0, h + 2, Len(df0)), m)
    IN  IF h = NoneRow THEN { [err |-> "RuntimeError", df |-> <<>>] }
        ELSE IF m.err # "" THEN { [err |-> m.err, df |-> <<>>] }
        ELSE IF p.err # "" THEN { [err |-> p.err, df |-> <<>>] }
        ELSE normalize_rows(p.rows)

-----------------------------------------------------------------------------
(* compute_diff.  A DataFrame is [cols, rows]: the set of its column names  *)
(* and its rows, each [code, name, shares].                                *)

\* a missing value of a text column (NaN after read_csv or after the outer merge)
NaN == <<"<NaN>">>

AllCols == {"code", "name", "shares"}

fillna_empty(x) == IF x = NaN THEN <<>> ELSE x

\* status_row testing the sign of delta before the NEW and OUT cases
status_row_delta_first(prev_shares, curr_shares, delta) ==
    IF delta > 0 THEN "UP"
    ELSE IF delta < 0 THEN "DOWN"
    ELSE IF prev_shares = 0 /\ curr_shares > 0 THEN "NEW"
    ELSE IF prev_shares > 0 /\ curr_shares = 0 THEN "OUT"
    ELSE "SAME"

status_row(prev_shares, curr_shares, delta) ==
    IF prev_shares = 0 /\ curr_shares > 0 THEN "NEW"
    ELSE IF prev_shares > 0 /\ curr_shares = 0 THEN "OUT"
    ELSE IF delta > 0 THEN "UP"
    ELSE IF delta < 0 THEN "DOWN"
    ELSE "SAME"

order_map(status) ==
    CASE status = "NEW" -> 0 [] status = "UP" -> 1 [] status = "DOWN" -> 2
      [] status = "OUT" -> 3 [] status = "SAME" -> 4

\* prev.merge(curr, on=["code"], how="outer"): the pairs <<i, j>> of row
\* numbers with equal code, and <<i, 0>>, <<0, j>> for the rows without a partner
merge_outer(prev_rows, curr_rows) ==
    LET P == 1..Len(prev_rows)
        C == 1..Len(curr_rows)
    IN  {<<i, j>> \in P \X C : prev_rows[i].code = curr_rows[j].code}
        \cup {<<i, 0>> : i \in {k \in P : \A j \in C : prev_rows[k].code # curr_rows[j].code}}
        \cup {<<0, j>> : j \in {k \in C : \A i \in P : prev_rows[i].code # curr_rows[k].code}}

\* lines 291-311 on one merged row
diff_entry(prev_rows, curr_rows, ij) ==
    LET i == ij[1]
        j == ij[2]
        name_curr == fillna_empty(IF j = 0 THEN NaN ELSE curr_rows[j].name)
        name_prev == fillna_empty(IF i = 0 THEN NaN ELSE prev_rows[i].name)
        prev_shares == IF i = 0 THEN 0 ELSE prev_rows[i].shares
        curr_shares == IF j = 0 THEN 0 ELSE curr_rows[j].shares
        delta == curr_shares - prev_shares
    IN  [code |-> IF i = 0 THEN curr_rows[j].code ELSE prev_rows[i].code,
         name |-> IF name_curr = <<>> THEN name_prev ELSE name_curr,
         prev_shares |-> prev_shares, curr_shares |-> curr_shares,
         delta |-> delta, status |-> status_row(prev_shares, curr_shares, delta),
         row |-> ij]   \* the merged row, which keeps equal rows apart until tidy_columns

\* sort_values(["order", "delta"], ascending=[True, False])
diff_before(a, b) ==
    \/ order_map(a.status) < order_map(b.status)
    \/ order_map(a.status) = order_map(b.status) /\ a.delta > b.delta

\* every arrangement of the entries E that the (unstable) sort can return
RECURSIVE sort_diff(_)
sort_diff(E) ==
    IF E = {} THEN { <<>> }
    ELSE LET firsts == {x \in E : \A y \in E : ~diff_before(y, x)}
         IN  UNION { { <<x>> \o rest : rest \in sort_diff(E \ {x}) } : x \in firsts }

\* merged[["code", "name", "prev_shares", "curr_shares", "delta", "status"]]
tidy_columns(e) ==
    [code |-> e.code, name |-> e.name, prev_shares |-> e.prev_shares,
     curr_shares |-> e.curr_shares, delta |-> e.delta, status |-> e.status]

\* the set of results of compute_diff, each [err, df].  With a "name" column
\* in both inputs the merge gives name_prev and name_curr.  With it in one
\* input only, or in none, there is no name_curr column, merged.get returns
\* its default "" and "".fillna raises AttributeError.
compute_diff(prev, curr) ==
    IF ~("name" \in prev.cols /\ "name" \in curr.cols)
    THEN { [err |-> "AttributeError", df |-> <<>>] }
    ELSE LET E == {diff_entry(prev.rows, curr.rows, ij) : ij \in merge_outer(prev.rows, curr.rows)}
         IN  { [err |-> "", df |-> [k \in 1..Len(d) |-> tidy_columns(d[k])]] : d \in sort_diff(E) }

-----------------------------------------------------------------------------
(* main: one run over the files of data/raw and data/out                   *)

\* a file that does not exist
Absent == [exists |-> FALSE]

NoDate == ""

\* pd.read_csv(latest_path, dtype={"code": "string"}) and the astype(str).str.strip()
\* of line 398: an empty or "nan" field is read as a missing value, which
\* astype(str) turns into "<NA>" in the code column
read_csv(f) ==
    [cols |-> f.cols,
     rows |-> [i \in 1..Len(f.rows) |->
                [code |-> IF f.rows[i].code = NaNText THEN <<"<", "N", "A", ">">>
                          ELSE Strip(f.rows[i].code),
                 name |-> IF f.rows[i].name \in {<<>>, NaNText} THEN NaN ELSE f.rows[i].name,
                 shares |-> f.rows[i].shares]]]

top_n == 20

\* write_summary_markdown: the counts of the Summary line and, per section,
\* the rows of that status among the first top_n by delta (most negative
\* first for DOWN and OUT, largest first for UP and NEW)
write_summary_markdown(d) ==
    LET sub(st) == {i \in 1..Len(d) : d[i].status = st}
        ahead(st, i) ==
            {j \in sub(st) : IF st \in {"DOWN", "OUT"} THEN d[j].delta < d[i].delta
                             ELSE d[j].delta > d[i].delta}
    IN  [counts |-> [st \in {"NEW", "UP", "DOWN", "OUT", "SAME"} |-> Cardinality(sub(st))],
         sections |-> [st \in {"NEW", "UP", "DOWN", "OUT"} |->
                         {d[i] : i \in {k \in sub(st) : Cardinality(ahead(st, k)) < top_n}}]]

\* line 396 and line 400: there is a latest.csv and it has the two columns
diffable(f) == f.latest # Absent /\ {"code", "shares"} \subseteq f.latest.cols

\* steps 3 to 6 of main after a successful parse of doc into the DataFrame df;
\* d is the result of compute_diff when the diff is computed.  An exception
\* of compute_diff leaves the files of steps 3 and 4 written and latest as it was.
main_store(f, doc, date, df, d) ==
    LET snapshot == [cols |-> AllCols, rows |-> df]
        f3 == [f EXCEPT !.raw = [@ EXCEPT ![date] = IF @ = Absent THEN [table |-> doc] ELSE @],
                        !.raw_tmp = Absent]
        f4 == [f3 EXCEPT !.holdings = [@ EXCEPT ![date] = snapshot]]
        f5 == IF diffable(f)
              THEN [f4 EXCEPT !.diff_csv = [@ EXCEPT ![date] = [rows |-> d.df]],
                              !.diff_md = [@ EXCEPT ![date] = write_summary_markdown(d.df)]]
              ELSE f4
    IN  IF diffable(f) /\ d.err # "" THEN f4
        ELSE [f5 EXCEPT !.latest = snapshot]

-----------------------------------------------------------------------------
(* Specification of find_header_row: the table is MaxRows or fewer rows of  *)
(* two cells; all rows are filler rows but two, placed anywhere.            *)

MaxRows == 42

T_nan == NaNText
T_x == <<"x">>
T_code == <<"dai", "hao">>
T_stockcode == <<" ", "gu", "piao", "dai", "hao">>
T_name == <<"ming", "cheng">>
T_shares == <<"gu", "shu">>
T_qty == <<"shu", "liang", " ">>
T_dai == <<"dai">>
T_hao_shares == <<"hao", "gu", "shu">>

\* the rows that are not marked: a note row, then a blank row, alternating
FillerRow(i) == IF i % 2 = 1 THEN <<T_x, T_nan>> ELSE <<T_nan, T_nan>>
MarkedRows == { <<T_stockcode, T_shares>>, <<T_code, T_name>>, <<T_dai, T_hao_shares>> }

HeaderTable(n, p1, r1, p2, r2) ==
    [i \in 1..n |-> IF i = p1 THEN r1 ELSE IF i = p2 THEN r2 ELSE FillerRow(i)]

Idle == <<>>

InitHeader ==
    /\ pc = "call"
    /\ \/ df_raw = <<>>
       \/ \E n \in 1..MaxRows : \E p1 \in 1..n : \E p2 \in p1..n :
            \E r1 \in MarkedRows : \E r2 \in MarkedRows :
               df_raw = HeaderTable(n, p1, r1, p2, r2)
    /\ header_row = NoneRow
    /\ columns = Idle /\ colmap = Idle /\ rows = Idle /\ holdings = Idle
    /\ prev_df = Idle /\ curr_df = Idle /\ diff_df = Idle
    /\ files = Idle /\ run = Idle

CallFindHeaderRow ==
    /\ pc = "call"
    /\ header_row' = find_header_row(df_raw)
    /\ pc' = "ret"
    /\ UNCHANGED <<df_raw, columns, colmap, rows, holdings,
                   prev_df, curr_df, diff_df, files, run>>

NextHeader == CallFindHeaderRow

SpecHeader == InitHeader /\ [][NextHeader]_vars

-----------------------------------------------------------------------------
(* Specification of the column mapping: a header row of MaxCols or fewer    *)
(* cells.                                                                  *)

MaxCols == 3

T_code_name == <<"dai", "hao", " ", "ming", "cheng">>
T_name_shares == <<"gu", "ming", "gu", "shu">>
T_held_shares == <<"chi", "gu", " ", "gu", "shu">>

ColTexts == { T_code, T_stockcode, T_name, T_shares, T_qty, T_x,
              T_code_name, T_name_shares, T_held_shares }

InitColumns ==
    /\ pc = "call"
    /\ \E n \in 1..MaxCols : columns \in [1..n -> ColTexts]
    /\ colmap = Idle
    /\ df_raw = Idle /\ header_row = NoneRow /\ rows = Idle /\ holdings = Idle
    /\ prev_df = Idle /\ curr_df = Idle /\ diff_df = Idle
    /\ files = Idle /\ run = Idle

CallResolveColumns ==
    /\ pc = "call"
    /\ colmap' = resolve_columns(columns)
    /\ pc' = "ret"
    /\ UNCHANGED <<df_raw, header_row, columns, rows, holdings,
                   prev_df, curr_df, diff_df, files, run>>

NextColumns == CallResolveColumns

SpecColumns == InitColumns /\ [][NextColumns]_vars

-----------------------------------------------------------------------------
(* Specification of the record normalisation: MaxDataRows or fewer rows of  *)
(* (code, name, shares) cells below the header.                            *)

MaxDataRows == 3

CodeCells == { <<"A">>, <<" ", "5", "0">>, <<"5", "0", ".", "0">>,
               <<"xiao", "ji">>, <<" ">>, <<"*", "A">> }
NameCells == { <<"n">>, <<"m", " ">> }
ShareCells == { <<"1">>, <<"1", ",", "0", "0", "0", ".", "9">>, <<"-", "2">>,
                <<"x">>, <<"i", "n", "f">> }

DataRows == [code : CodeCells, name : NameCells, shares : ShareCells]

InitNormalize ==
    /\ pc = "call"
    /\ \E n \in 0..MaxDataRows : rows \in [1..n -> DataRows]
    /\ holdings = Idle
    /\ df_raw = Idle /\ header_row = NoneRow /\ columns = Idle /\ colmap = Idle
    /\ prev_df = Idle /\ curr_df = Idle /\ diff_df = Idle
    /\ files = Idle /\ run = Idle

CallNormalize ==
    /\ pc = "call"
    /\ holdings' \in normalize_rows(rows)
    /\ pc' = "ret"
    /\ UNCHANGED <<df_raw, header_row, columns, colmap, rows,
                   prev_df, curr_df, diff_df, files, run>>

NextNormalize == CallNormalize

SpecNormalize == InitNormalize /\ [][NextNormalize]_vars

-----------------------------------------------------------------------------
(* Specification of compute_diff.  Both inputs are snapshots as              *)
(* parse_holdings_from_xlsx returns them: MaxHoldings or fewer rows, one for *)
(* each (code, name) pair, the shares not increasing.  The previous one has  *)
(* gone through latest.csv, and may come from a latest.csv without a name    *)
(* column, which main accepts (line 400).  compute_diff gives the same set  *)
(* of results for every order of the rows of an input, so among the rows of  *)
(* equal shares only the order by (code, name) is drawn.                    *)

MaxHoldings == 2

DiffCodes == { <<"A">>, <<"B">> }
Quantities == {-1, 0, 1, 2}

SnapshotRows(names) ==
    UNION { { r \in [1..n -> [code : DiffCodes, name : names, shares : Quantities]] :
                /\ \A i, j \in 1..n : i # j => (r[i].code # r[j].code \/ r[i].name # r[j].name)
                /\ \A i \in 1..(n - 1) :
                     \/ r[i].shares > r[i + 1].shares
                     \/ /\ r[i].shares = r[i + 1].shares
                        /\ \/ TextLess(r[i].code, r[i + 1].code)
                           \/ r[i].code = r[i + 1].code /\ TextLess(r[i].name, r[i + 1].name) } :
            n \in 0..MaxHoldings }

InitDiff ==
    /\ pc = "call"
    /\ \/ \E r \in SnapshotRows({<<>>, <<"o">>}) :
            prev_df = read_csv([cols |-> AllCols, rows |-> r])
       \/ \E r \in SnapshotRows({<<>>}) :
            prev_df = read_csv([cols |-> {"code", "shares"}, rows |-> r])
    /\ \E r \in SnapshotRows({<<>>, <<"n">>}) : curr_df = [cols |-> AllCols, rows |-> r]
    /\ diff_df = Idle
    /\ df_raw = Idle /\ header_row = NoneRow /\ columns = Idle /\ colmap = Idle
    /\ rows = Idle /\ holdings = Idle
    /\ files = Idle /\ run = Idle

CallComputeDiff ==
    /\ pc = "call"
    /\ diff_df' \in compute_diff(prev_df, curr_df)
    /\ pc' = "ret"
    /\ UNCHANGED <<df_raw, header_row, columns, colmap, rows, holdings,
                   prev_df, curr_df, files, run>>

NextDiff == CallComputeDiff

SpecDiff == InitDiff /\ [][NextDiff]_vars

-----------------------------------------------------------------------------
(* Specification of main: MaxRuns runs, each over a downloaded document.    *)
(* A document is a title row, a header row and MaxDocRows or fewer rows of  *)
(* holdings; one document has no header row and one binds code and name to  *)
(* the same column.                                                        *)

MaxRuns == 2
MaxDocRows == 2

Dates == {"20260109", "20260112"}

DocCodeCells == { <<"A">>, <<"he", "ji">> }
DocNameCells == { <<"n">>, <<"m">> }
DocShareCells == { <<"1">>, <<"2">> }

TitleRow == <<T_x, T_nan, T_nan>>
HeaderRow == <<T_stockcode, T_name, T_shares>>

Docs ==
    UNION { { <<TitleRow, HeaderRow>> \o [i \in 1..n |-> <<r[i].code, r[i].name, r[i].shares>>] :
                r \in [1..n -> [code : DocCodeCells, name : DocNameCells, shares : DocShareCells]] } :
            n \in 0..MaxDocRows }
    \cup { <<TitleRow, TitleRow>>,
           <<TitleRow, <<T_code_name, T_x, T_shares>>, << <<"A">>, <<"n">>, <<"1">> >> >> }

InitRuns ==
    /\ pc = "idle"
    /\ files = [raw_tmp |-> Absent, raw |-> [d \in Dates |-> Absent],
                holdings |-> [d \in Dates |-> Absent], latest |-> Absent,
                diff_csv |-> [d \in Dates |-> Absent], diff_md |-> [d \in Dates |-> Absent]]
    /\ run = [n |-> 0, status |-> "", parsed |-> FALSE, holdings |-> <<>>, date |-> NoDate]
    /\ df_raw = Idle /\ header_row = NoneRow /\ columns = Idle /\ colmap = Idle
    /\ rows = Idle /\ holdings = Idle
    /\ prev_df = Idle /\ curr_df = Idle /\ diff_df = Idle

\* download_xlsx raises (raise_for_status, a timeout): nothing is written
MainDownloadFails ==
    /\ run.n < MaxRuns
    /\ run' = [n |-> run.n + 1, status |-> "HTTPError", parsed |-> FALSE,
               holdings |-> <<>>, date |-> NoDate]
    /\ UNCHANGED <<pc, df_raw, header_row, columns, colmap, rows, holdings,
                   prev_df, curr_df, diff_df, files>>

\* main with the document doc downloaded; data_date is what
\* extract_data_date_from_xlsx found in it (NoDate for None) and today is
\* dt.date.today()
Main ==
    /\ run.n < MaxRuns
    /\ \E doc \in Docs :
         \E r \in parse_holdings_from_xlsx(doc) :
            IF r.err # ""
            THEN /\ files' = [files EXCEPT !.raw_tmp = [table |-> doc]]
                 /\ run' = [n |-> run.n + 1, status |-> r.err, parsed |-> FALSE,
                            holdings |-> <<>>, date |-> NoDate]
            ELSE \E d \in (IF diffable(files)
                           THEN compute_diff(read_csv(files.latest), [cols |-> AllCols, rows |-> r.df])
                           ELSE { [err |-> "", df |-> <<>>] }) :
                 \E data_date \in Dates \cup {NoDate}, today \in Dates :
                    LET date == IF data_date = NoDate THEN today ELSE data_date
                    IN  /\ files' = main_store(files, doc, date, r.df, d)
                        /\ run' = [n |-> run.n + 1, status |-> IF d.err # "" THEN d.err ELSE "ok",
                                   parsed |-> TRUE, holdings |-> r.df, date |-> date]
    /\ UNCHANGED <<pc, df_raw, header_row, columns, colmap, rows, holdings,
                   prev_df, curr_df, diff_df>>

NextRuns == Main \/ MainDownloadFails

SpecRuns == InitRuns /\ [][NextRuns]_vars

-----------------------------------------------------------------------------
(* Properties *)

Codes(rs) == {rs[i].code : i \in 1..Len(rs)}
Occurrences(rs, code) == Cardinality({i \in 1..Len(rs) : rs[i].code = code})

\* the two snapshots hold no negative quantity (to_int_safe lets them through, C5)
NoNegativeQuantity ==
    /\ \A i \in 1..Len(prev_df.rows) : prev_df.rows[i].shares >= 0
    /\ \A i \in 1..Len(curr_df.rows) : curr_df.rows[i].shares >= 0

\* C1: the output of compute_diff holds every identifier of previous or of
\* current exactly once, and no identifier that is in neither
C1_EveryIdentifierExactlyOnce ==
    (pc = "ret" /\ diff_df.err = "" /\ NoNegativeQuantity) =>
        /\ Codes(diff_df.df) = Codes(prev_df.rows) \cup Codes(curr_df.rows)
        /\ \A c \in Codes(diff_df.df) : Occurrences(diff_df.df, c) = 1

\* C1 for two snapshots in which every identifier is in one Holding only:
\* it holds, the repeated entries come from the repeated identifiers alone
EveryIdentifierOnceWhenUniqueInSnapshots ==
    (/\ pc = "ret" /\ diff_df.err = ""
     /\ \A c \in Codes(prev_df.rows) : Occurrences(prev_df.rows, c) = 1
     /\ \A c \in Codes(curr_df.rows) : Occurrences(curr_df.rows, c) = 1) =>
        /\ Codes(diff_df.df) = Codes(prev_df.rows) \cup Codes(curr_df.rows)
        /\ \A c \in Codes(diff_df.df) : Occurrences(diff_df.df, c) = 1

\* the quantities a snapshot holds for an identifier, 0 when it is missing
QuantitiesOf(rs, code) ==
    IF code \in Codes(rs) THEN {rs[i].shares : i \in {k \in 1..Len(rs) : rs[k].code = code}}
    ELSE {0}

\* what C2 says of an entry but for SAME
C2_Entry(e) ==
    /\ e.prev_shares \in QuantitiesOf(prev_df.rows, e.code)
    /\ e.curr_shares \in QuantitiesOf(curr_df.rows, e.code)
    /\ e.delta = e.curr_shares - e.prev_shares
    /\ (e.prev_shares = 0 /\ e.curr_shares > 0) => e.status = "NEW"
    /\ (e.prev_shares > 0 /\ e.curr_shares = 0) => e.status = "OUT"
    /\ (e.curr_shares > e.prev_shares /\ e.prev_shares > 0) => e.status = "UP"
    /\ (0 < e.curr_shares /\ e.curr_shares < e.prev_shares) => e.status = "DOWN"

\* C2 as stated: for every entry of the diff, delta = curr - prev, NEW, OUT,
\* UP and DOWN as in C2_Entry, and SAME only when curr = prev with both > 0.
\* It is stated here for snapshots without a negative quantity, so that a
\* violation does not rest on the quantities to_int_safe lets through (C5).
C2_SameOnlyWhenBothPositive ==
    (pc = "ret" /\ diff_df.err = "" /\ NoNegativeQuantity) =>
        \A k \in 1..Len(diff_df.df) :
            LET e == diff_df.df[k]
            IN  /\ C2_Entry(e)
                /\ e.status = "SAME" =>
                     (e.curr_shares = e.prev_shares /\ e.curr_shares > 0 /\ e.prev_shares > 0)

\* C2, amended: for every entry of the diff, delta = curr - prev, NEW, OUT,
\* UP and DOWN as in C2_Entry, and SAME only when curr = prev (0 in both
\* snapshots included)
C2_SameOnlyWhenEqual ==
    (pc = "ret" /\ diff_df.err = "") =>
        \A k \in 1..Len(diff_df.df) :
            LET e == diff_df.df[k]
            IN  /\ C2_Entry(e)
                /\ e.status = "SAME" => e.curr_shares = e.prev_shares

\* C2's witness: a diff with an entry that is SAME with the quantity 0 in
\* both snapshots and an entry that is UP or DOWN between two positive ones
C2_Witness ==
    /\ pc = "ret" /\ diff_df.err = ""
    /\ \E k \in 1..Len(diff_df.df) :
         diff_df.df[k].status = "SAME" /\ diff_df.df[k].curr_shares = 0
    /\ \E k \in 1..Len(diff_df.df) :
         diff_df.df[k].status \in {"UP", "DOWN"} /\ diff_df.df[k].prev_shares > 0
            /\ diff_df.df[k].curr_shares > 0

\* the rows of the input the filters keep, cleaned
C3_KeptRows ==
    { [code |-> clean_code(rows[i].code), shares |-> to_int_safe(rows[i].shares).val, row |-> i] :
        i \in {k \in 1..Len(rows) : keep_code(clean_code(rows[k].code))} }

RECURSIVE C3_Sum(_)
C3_Sum(S) == IF S = {} THEN 0 ELSE LET x == CHOOSE y \in S : TRUE IN x.shares + C3_Sum(S \ {x})

\* C3: in a returned snapshot every identifier is in one Holding only, whose
\* quantity is the sum of the quantities of the raw rows of that identifier
C3_IdentifierUniqueAndSummed ==
    (pc = "ret" /\ holdings.err = "") =>
        \A i \in 1..Len(holdings.df) :
            /\ Occurrences(holdings.df, holdings.df[i].code) = 1
            /\ holdings.df[i].shares = C3_Sum({x \in C3_KeptRows : x.code = holdings.df[i].code})

\* C4: a run whose parse is left with zero holdings fails with EmptyHoldings
\* and leaves latest.csv as it was
C4_EmptyHoldingsFailsTheRun ==
    [][(run'.n = run.n + 1 /\ run'.parsed /\ run'.holdings = <<>>) =>
          (run'.status = "EmptyHoldings" /\ files'.latest = files.latest)]_vars

\* C5: parsing the quantity cells never raises, and every Holding of a
\* returned snapshot has a quantity >= 0
C5_QuantityNeverNegativeNeverRaises ==
    pc = "ret" =>
        /\ holdings.err = ""
        /\ \A i \in 1..Len(holdings.df) : holdings.df[i].shares >= 0

\* a row holds a keyword of the family kws in one of its cells
C6_RowHas(row, kws) == \E i \in 1..Len(row) : \E k \in kws : Contains(row[i], k)

\* the rows of the scan window with an identifier-keyword and a quantity-keyword
C6_Qualifying ==
    {i \in 0..(Min(max_scan_limit, Len(df_raw)) - 1) :
        C6_RowHas(df_raw[i + 1], must_have_any) /\ C6_RowHas(df_raw[i + 1], shares_any)}

\* C6: find_header_row returns the first row of the scan window that holds
\* an identifier-keyword and a quantity-keyword, and None exactly when the
\* window has no such row
C6_FirstQualifyingRow ==
    pc = "ret" =>
        LET Q == C6_Qualifying
        IN  IF Q = {} THEN header_row = NoneRow
            ELSE header_row \in Q /\ \A j \in Q : header_row <= j

\* C6's witness: a header found below the first row, in a table longer than
\* the scan window that has a second such row after it
C6_Witness ==
    /\ pc = "ret" /\ header_row > 0 /\ Len(df_raw) > max_scan_limit
    /\ \E j \in (header_row + 1)..(Len(df_raw) - 1) : RowQualifies(df_raw[j + 1])

\* C7: when the column mapping succeeds, the columns bound to identifier,
\* label and quantity are pairwise distinct
C7_ColumnsPairwiseDistinct ==
    (pc = "ret" /\ colmap.err = "") =>
        /\ colmap.code_col # colmap.shares_col
        /\ colmap.name_col # colmap.code_col
        /\ colmap.name_col # colmap.shares_col

\* C8: a snapshot persisted by an earlier run is not modified by a later run
\* (stated for the snapshots that hold a Holding: an empty one is C4's case)
C8_PersistedSnapshotNeverModified ==
    [][\A d \in Dates :
          (files.holdings[d] # Absent /\ files.holdings[d] # [cols |-> AllCols, rows |-> <<>>])
             => files'.holdings[d] = files.holdings[d]]_vars

C9_Code(ij) == IF ij[1] = 0 THEN curr_df.rows[ij[2]].code ELSE prev_df.rows[ij[1]].code

\* the label of a snapshot's row, empty when missing
C9_Label(rs, i) == IF i = 0 \/ rs[i].name = NaN THEN <<>> ELSE rs[i].name

\* C9: compute_diff does not fail, also without a label field in a snapshot,
\* and every entry has the current snapshot's label when that is not empty
\* and the previous snapshot's label otherwise
C9_LabelResolvedWithoutFailure ==
    pc = "ret" =>
        /\ diff_df.err = ""
        /\ \A k \in 1..Len(diff_df.df) :
             \E ij \in merge_outer(prev_df.rows, curr_df.rows) :
                /\ diff_df.df[k].code = C9_Code(ij)
                /\ diff_df.df[k].name =
                     IF C9_Label(curr_df.rows, ij[2]) # <<>> THEN C9_Label(curr_df.rows, ij[2])
                     ELSE C9_Label(prev_df.rows, ij[1])

\* the label rule of C9 alone: it holds of every diff compute_diff returns
LabelRuleWhenDiffReturns ==
    (pc = "ret" /\ diff_df.err = "") =>
        \A k \in 1..Len(diff_df.df) :
            \E ij \in merge_outer(prev_df.rows, curr_df.rows) :
               /\ diff_df.df[k].code = C9_Code(ij)
               /\ diff_df.df[k].name =
                    IF C9_Label(curr_df.rows, ij[2]) # <<>> THEN C9_Label(curr_df.rows, ij[2])
                    ELSE C9_Label(prev_df.rows, ij[1])

\* C10: a returned snapshot is ordered by quantity descending, and Holdings
\* of equal quantity are in ascending identifier order
C10_SortedWithIdentifierTieBreak ==
    (pc = "ret" /\ holdings.err = "") =>
        \A i \in 1..(Len(holdings.df) - 1) :
            \/ holdings.df[i].shares > holdings.df[i + 1].shares
            \/ /\ holdings.df[i].shares = holdings.df[i + 1].shares
               /\ ~TextLess(holdings.df[i + 1].code, holdings.df[i].code)

====
